---- MODULE Spec2Model ----
\* Model of the ad marketplace canister in src/src/index.ts: the stable map
\* adStorage, the update calls createAd, updateAd, deleteAd and bidOnAd, and
\* the queries getAllAds, getAdByID and getAdsByOwner.
\* The host runs one call to completion before the next, so each call is one
\* atomic action.
EXTENDS Integers, Sequences, FiniteSets, TLC

\* ------------------------------------------------------------------ bounds
\* Number of calls (update messages) in a behaviour.
MaxCalls == 3
\* Number of Ads createAd may create in a behaviour.
MaxAds == 2
\* Largest value of the host clock ic.time() reads.
MaxTime == 1

\* ------------------------------------------------------------------ values
\* uuidv4(): the n-th identifier drawn from the generator. The generator is an
\* external collaborator that never repeats a value.
uuidv4(n) == "uuid" \o ToString(n)

\* Arguments callers send. "" is the empty string. createAd gives the k-th Ad
\* the id uuidv4(2k-1) and the owner uuidv4(2k) (index.ts 57-58, in that
\* order): callers address the first two Ads and name their owners.
IdArgs == {"", uuidv4(1), uuidv4(3)}
OwnerArgs == {"", "buyer1", uuidv4(2), uuidv4(4)}
CreateItemTypes == {"", "bike"}
CreateItemDescriptions == {"", "red bike"}
UpdateItemTypes == {"", "car"}
UpdateItemDescriptions == {"", "blue car"}
StatusArgs == {"", "OPEN", "CLOSED", "BOUGHT", "SOLD", "toString"}
\* amount is a float64; "NaN" is the value isNaN accepts, the others are numbers.
AmountArgs == {"NaN", "100", "150"}

\* enum AdStatus: own keys of the compiled enum object, each mapped to itself.
AdStatus == [k \in {"OPEN", "CLOSED", "BOUGHT"} |-> k]

\* Properties every plain JavaScript object inherits from Object.prototype.
ObjectPrototypeKeys ==
    {"constructor", "toString", "toLocaleString", "valueOf", "hasOwnProperty",
     "isPrototypeOf", "propertyIsEnumerable", "__proto__"}

\* JavaScript `key in object`: own keys and inherited keys.
In(key, object) == key \in DOMAIN object \/ key \in ObjectPrototypeKeys

\* JavaScript `!s` for a string s: only the empty string is falsy.
Not(s) == s = ""

\* JavaScript `a || b` for strings.
Or(a, b) == IF a # "" THEN a ELSE b

isNaN(amount) == amount = "NaN"

\* Opt<nat64>
None == << >>
Some(v) == << v >>

\* ------------------------------------------------------------------ results
\* Result.Ok(value) and Result.Err(message); a failure carries no value.
Ok(v) == [ok |-> TRUE, msg |-> "", value |-> v]
Err(m) == [ok |-> FALSE, msg |-> m, value |-> << >>]

\* The messages of the failure results, as the code builds them.
NotFoundMsg(id) == "Ad with id of " \o id \o " has not been found"
DuplicateBidMsg(bidder) == bidder \o " has already bid on this ad!"
GetNotFoundMsg(id) == "Ad with id of " \o id \o " has not been found!"
NoAdsMsg(owner) == "No ads found for " \o owner
InvalidStatusMsg == "Invalid status! Allowed statuses are OPEN, CLOSED, BOUGHT"

\* ------------------------------------------------------------------ state
VARIABLES
    adStorage,   \* StableBTreeMap<string, Ad>: function from stored keys to Ads
    uuidCount,   \* identifiers drawn from uuidv4 so far
    now,         \* ic.time() of the latest message
    calls,       \* update calls made so far (queries are not counted)
    last         \* the latest call: operation, arguments, result, store writes
                 \* (and, for updateAd, the status its Ad had before the call)

vars == << adStorage, uuidCount, now, calls, last >>

NoCall ==
    [op |-> "none", id |-> "", who |-> "", itemType |-> "", itemDescription |-> "",
     status |-> "", amount |-> "", statusBefore |-> "",
     result |-> Ok(<< >>), writes |-> 0]

\* StableBTreeMap primitives
insert(store, key, value) ==
    [k \in DOMAIN store \cup {key} |-> IF k = key THEN value ELSE store[k]]
remove(store, key) == [k \in DOMAIN store \ {key} |-> store[k]]
containsKey(store, key) == key \in DOMAIN store

\* findBid comparing the wrong field of the bid with the bidder.
findBid_amount(bids, bidder) == \E i \in 1..Len(bids) : bids[i].amount = bidder

\* Array.prototype.find over ad.bids with (bid) => bid.bidder === bidder
findBid(bids, bidder) == \E i \in 1..Len(bids) : bids[i].bidder = bidder

\* ------------------------------------------------------------------ handlers
\* Each handler maps the store and the arguments to the store after the call,
\* the result and the number of store writes (insert/remove) it made.
Outcome(store, result, writes) == [store |-> store, result |-> result, writes |-> writes]

\* createAd storing the new Ad under its owner instead of its id.
createAd_keyOwner(store, n, time, itemType, itemDescription) ==
    IF Not(itemType) \/ Not(itemDescription)
    THEN Outcome(store, Err("Invalid payload for creating ad"), 0)
    ELSE LET ad == [id |-> uuidv4(n + 1),
                    owner |-> uuidv4(n + 2),
                    bids |-> << >>,
                    status |-> AdStatus["OPEN"],
                    createdAt |-> time,
                    updatedAt |-> None,
                    itemType |-> itemType,
                    itemDescription |-> itemDescription]
         IN Outcome(insert(store, ad.owner, ad), Ok(ad), 1)

\* createAd refusing the payload only when both fields are empty.
createAd_bothEmpty(store, n, time, itemType, itemDescription) ==
    IF Not(itemType) /\ Not(itemDescription)
    THEN Outcome(store, Err("Invalid payload for creating ad"), 0)
    ELSE LET ad == [id |-> uuidv4(n + 1),
                    owner |-> uuidv4(n + 2),
                    bids |-> << >>,
                    status |-> AdStatus["OPEN"],
                    createdAt |-> time,
                    updatedAt |-> None,
                    itemType |-> itemType,
                    itemDescription |-> itemDescription]
         IN Outcome(insert(store, ad.id, ad), Ok(ad), 1)

\* createAd giving every Ad the owner identifier drawn for the first Ad.
createAd_sharedOwner(store, n, time, itemType, itemDescription) ==
    IF Not(itemType) \/ Not(itemDescription)
    THEN Outcome(store, Err("Invalid payload for creating ad"), 0)
    ELSE LET ad == [id |-> uuidv4(n + 1),
                    owner |-> uuidv4(2),
                    bids |-> << >>,
                    status |-> AdStatus["OPEN"],
                    createdAt |-> time,
                    updatedAt |-> None,
                    itemType |-> itemType,
                    itemDescription |-> itemDescription]
         IN Outcome(insert(store, ad.id, ad), Ok(ad), 1)

createAd(store, n, time, itemType, itemDescription) ==
    IF Not(itemType) \/ Not(itemDescription)
    THEN Outcome(store, Err("Invalid payload for creating ad"), 0)
    ELSE LET ad == [id |-> uuidv4(n + 1),
                    owner |-> uuidv4(n + 2),
                    bids |-> << >>,
                    status |-> AdStatus["OPEN"],
                    createdAt |-> time,
                    updatedAt |-> None,
                    itemType |-> itemType,
                    itemDescription |-> itemDescription]
         IN Outcome(insert(store, ad.id, ad), Ok(ad), 1)

\* updateAdSome without the owner check.
updateAdSome_noOwnerCheck(store, time, ad, owner, itemType, itemDescription, status) ==
    LET updatedAd == [ad EXCEPT
            !.itemType = Or(itemType, ad.itemType),
            !.itemDescription = Or(itemDescription, ad.itemDescription),
            !.status = Or(status, ad.status),
            !.updatedAt = Some(time)]
    IN Outcome(insert(store, ad.id, updatedAd), Ok(updatedAd), 1)

\* updateAdSome writing the updated Ad before it checks the owner.
updateAdSome_writeFirst(store, time, ad, owner, itemType, itemDescription, status) ==
    LET updatedAd == [ad EXCEPT
            !.itemType = Or(itemType, ad.itemType),
            !.itemDescription = Or(itemDescription, ad.itemDescription),
            !.status = Or(status, ad.status),
            !.updatedAt = Some(time)]
        written == insert(store, ad.id, updatedAd)
    IN IF ad.owner # owner
       THEN Outcome(written, Err("Only the owner can edit the ad!"), 1)
       ELSE Outcome(written, Ok(updatedAd), 1)

\* updateAdSome stamping createdAt as well as updatedAt.
updateAdSome_resetsCreatedAt(store, time, ad, owner, itemType, itemDescription, status) ==
    IF ad.owner # owner
    THEN Outcome(store, Err("Only the owner can edit the ad!"), 0)
    ELSE LET updatedAd == [ad EXCEPT
                 !.itemType = Or(itemType, ad.itemType),
                 !.itemDescription = Or(itemDescription, ad.itemDescription),
                 !.status = Or(status, ad.status),
                 !.createdAt = time,
                 !.updatedAt = Some(time)]
         IN Outcome(insert(store, ad.id, updatedAd), Ok(updatedAd), 1)

\* updateAdSome building the updated Ad afresh, with empty bids.
updateAdSome_dropsBids(store, time, ad, owner, itemType, itemDescription, status) ==
    IF ad.owner # owner
    THEN Outcome(store, Err("Only the owner can edit the ad!"), 0)
    ELSE LET updatedAd == [ad EXCEPT
                 !.itemType = Or(itemType, ad.itemType),
                 !.itemDescription = Or(itemDescription, ad.itemDescription),
                 !.status = Or(status, ad.status),
                 !.bids = << >>,
                 !.updatedAt = Some(time)]
         IN Outcome(insert(store, ad.id, updatedAd), Ok(updatedAd), 1)

\* updateAdSome leaving updatedAt as it was.
updateAdSome_keepsUpdatedAt(store, time, ad, owner, itemType, itemDescription, status) ==
    IF ad.owner # owner
    THEN Outcome(store, Err("Only the owner can edit the ad!"), 0)
    ELSE LET updatedAd == [ad EXCEPT
                 !.itemType = Or(itemType, ad.itemType),
                 !.itemDescription = Or(itemDescription, ad.itemDescription),
                 !.status = Or(status, ad.status)]
         IN Outcome(insert(store, ad.id, updatedAd), Ok(updatedAd), 1)

\* updateAdSome refusing to reopen an Ad that is CLOSED or BOUGHT.
updateAdSome_noReopen(store, time, ad, owner, itemType, itemDescription, status) ==
    IF ad.owner # owner
    THEN Outcome(store, Err("Only the owner can edit the ad!"), 0)
    ELSE IF ad.status # AdStatus["OPEN"] /\ status = AdStatus["OPEN"]
    THEN Outcome(store, Err("Ad is no longer open"), 0)
    ELSE LET updatedAd == [ad EXCEPT
                 !.itemType = Or(itemType, ad.itemType),
                 !.itemDescription = Or(itemDescription, ad.itemDescription),
                 !.status = Or(status, ad.status),
                 !.updatedAt = Some(time)]
         IN Outcome(insert(store, ad.id, updatedAd), Ok(updatedAd), 1)

\* The Some: callback of updateAd's match (index.ts 96-112).
updateAdSome(store, time, ad, owner, itemType, itemDescription, status) ==
    IF ad.owner # owner
    THEN Outcome(store, Err("Only the owner can edit the ad!"), 0)
    ELSE LET updatedAd == [ad EXCEPT
                 !.itemType = Or(itemType, ad.itemType),
                 !.itemDescription = Or(itemDescription, ad.itemDescription),
                 !.status = Or(status, ad.status),
                 !.updatedAt = Some(time)]
         IN Outcome(insert(store, ad.id, updatedAd), Ok(updatedAd), 1)

updateAd(store, time, id, owner, itemType, itemDescription, status) ==
    IF Not(id) \/ Not(owner)
    THEN Outcome(store, Err("Invalid parameters for updating ad"), 0)
    ELSE IF Not(itemType) \/ Not(itemDescription)
    THEN Outcome(store, Err("Invalid payload for updating ad"), 0)
    ELSE IF ~Not(status) /\ ~In(status, AdStatus)
    THEN Outcome(store, Err(InvalidStatusMsg), 0)
    ELSE IF containsKey(store, id)
    THEN updateAdSome(store, time, store[id], owner, itemType, itemDescription, status)
    ELSE Outcome(store, Err(NotFoundMsg(id)), 0)

\* deleteAdSome without the owner check.
deleteAdSome_noOwnerCheck(store, id, ad, owner) == Outcome(remove(store, id), Ok(ad), 1)

\* deleteAdSome returning the Ad without removing it from the store.
deleteAdSome_noRemove(store, id, ad, owner) ==
    IF ad.owner # owner
    THEN Outcome(store, Err("Only the owner can delete the ad!"), 0)
    ELSE Outcome(store, Ok(ad), 0)

\* The Some: callback of deleteAd's match (index.ts 131-138).
deleteAdSome(store, id, ad, owner) ==
    IF ad.owner # owner
    THEN Outcome(store, Err("Only the owner can delete the ad!"), 0)
    ELSE Outcome(remove(store, id), Ok(ad), 1)

deleteAd(store, id, owner) ==
    IF Not(id) \/ Not(owner)
    THEN Outcome(store, Err("Invalid parameters for deleting ad"), 0)
    ELSE IF containsKey(store, id)
    THEN deleteAdSome(store, id, store[id], owner)
    ELSE Outcome(store, Err(NotFoundMsg(id)), 0)

\* bidOnAdSome rejecting only CLOSED Ads instead of every Ad that is not OPEN.
bidOnAdSome_closedOnly(store, ad, bidder, amount) ==
    IF ad.status = AdStatus["CLOSED"]
    THEN Outcome(store, Err("Ad is no longer open"), 0)
    ELSE IF ad.owner = bidder
    THEN Outcome(store, Err("You can't bid on your own ad!"), 0)
    ELSE IF findBid(ad.bids, bidder)
    THEN Outcome(store, Err(DuplicateBidMsg(bidder)), 0)
    ELSE LET bid == [bidder |-> bidder, amount |-> amount]
             pushed == [ad EXCEPT !.bids = Append(ad.bids, bid)]
         IN Outcome(insert(store, ad.id, pushed), Ok(pushed), 1)

\* bidOnAdSome comparing the bidder with the Ad's id instead of its owner.
bidOnAdSome_idForOwner(store, ad, bidder, amount) ==
    IF ad.status # AdStatus["OPEN"]
    THEN Outcome(store, Err("Ad is no longer open"), 0)
    ELSE IF ad.id = bidder
    THEN Outcome(store, Err("You can't bid on your own ad!"), 0)
    ELSE IF findBid(ad.bids, bidder)
    THEN Outcome(store, Err(DuplicateBidMsg(bidder)), 0)
    ELSE LET bid == [bidder |-> bidder, amount |-> amount]
             pushed == [ad EXCEPT !.bids = Append(ad.bids, bid)]
         IN Outcome(insert(store, ad.id, pushed), Ok(pushed), 1)

\* bidOnAdSome without the check for an earlier bid of the bidder.
bidOnAdSome_noDuplicateCheck(store, ad, bidder, amount) ==
    IF ad.status # AdStatus["OPEN"]
    THEN Outcome(store, Err("Ad is no longer open"), 0)
    ELSE IF ad.owner = bidder
    THEN Outcome(store, Err("You can't bid on your own ad!"), 0)
    ELSE LET bid == [bidder |-> bidder, amount |-> amount]
             pushed == [ad EXCEPT !.bids = Append(ad.bids, bid)]
         IN Outcome(insert(store, ad.id, pushed), Ok(pushed), 1)

\* bidOnAdSome checking the owner before the status.
bidOnAdSome_ownerFirst(store, ad, bidder, amount) ==
    IF ad.owner = bidder
    THEN Outcome(store, Err("You can't bid on your own ad!"), 0)
    ELSE IF ad.status # AdStatus["OPEN"]
    THEN Outcome(store, Err("Ad is no longer open"), 0)
    ELSE IF findBid(ad.bids, bidder)
    THEN Outcome(store, Err(DuplicateBidMsg(bidder)), 0)
    ELSE LET bid == [bidder |-> bidder, amount |-> amount]
             pushed == [ad EXCEPT !.bids = Append(ad.bids, bid)]
         IN Outcome(insert(store, ad.id, pushed), Ok(pushed), 1)

\* bidOnAdSome marking the Ad BOUGHT when it takes the bid.
bidOnAdSome_marksBought(store, ad, bidder, amount) ==
    IF ad.status # AdStatus["OPEN"]
    THEN Outcome(store, Err("Ad is no longer open"), 0)
    ELSE IF ad.owner = bidder
    THEN Outcome(store, Err("You can't bid on your own ad!"), 0)
    ELSE IF findBid(ad.bids, bidder)
    THEN Outcome(store, Err(DuplicateBidMsg(bidder)), 0)
    ELSE LET bid == [bidder |-> bidder, amount |-> amount]
             pushed == [ad EXCEPT !.bids = Append(ad.bids, bid),
                                  !.status = AdStatus["BOUGHT"]]
         IN Outcome(insert(store, ad.id, pushed), Ok(pushed), 1)

\* The Some: callback of bidOnAd's match (index.ts 157-177).
bidOnAdSome(store, ad, bidder, amount) ==
    IF ad.status # AdStatus["OPEN"]
    THEN Outcome(store, Err("Ad is no longer open"), 0)
    ELSE IF ad.owner = bidder
    THEN Outcome(store, Err("You can't bid on your own ad!"), 0)
    ELSE IF findBid(ad.bids, bidder)
    THEN Outcome(store, Err(DuplicateBidMsg(bidder)), 0)
    ELSE LET bid == [bidder |-> bidder, amount |-> amount]
             pushed == [ad EXCEPT !.bids = Append(ad.bids, bid)]
         IN Outcome(insert(store, ad.id, pushed), Ok(pushed), 1)

bidOnAd(store, id, bidder, amount) ==
    IF Not(id) \/ Not(bidder) \/ isNaN(amount)
    THEN Outcome(store, Err("Invalid parameters for bidding on ad"), 0)
    ELSE IF containsKey(store, id)
    THEN bidOnAdSome(store, store[id], bidder, amount)
    ELSE Outcome(store, Err(NotFoundMsg(id)), 0)

\* adStorage.values(): the stored Ads in the order of their keys. The k-th
\* identifier drawn stands k-th in the order of the keys.
keyRank(key) == CHOOSE n \in 1..(2 * (MaxAds + 1)) : uuidv4(n) = key
values(store) ==
    LET keys == DOMAIN store
        order == CHOOSE f \in [1..Cardinality(keys) -> keys] :
                     \A i, j \in 1..Cardinality(keys) :
                         i < j => keyRank(f[i]) < keyRank(f[j])
    IN [i \in 1..Cardinality(keys) |-> store[order[i]]]

\* The queries: they read the store and write nothing.
getAllAds(store) == Outcome(store, Ok(values(store)), 0)

getAdByID(store, id) ==
    IF containsKey(store, id)
    THEN Outcome(store, Ok(store[id]), 0)
    ELSE Outcome(store, Err(GetNotFoundMsg(id)), 0)

\* getAdsByOwner succeeding with the empty sequence when no Ad matches.
getAdsByOwner_okWhenEmpty(store, owner) ==
    LET ads == SelectSeq(values(store), LAMBDA ad : ad.owner = owner) IN
    Outcome(store, Ok(ads), 0)

getAdsByOwner(store, owner) ==
    LET ads == SelectSeq(values(store), LAMBDA ad : ad.owner = owner) IN
    IF Len(ads) > 0
    THEN Outcome(store, Ok(ads), 0)
    ELSE Outcome(store, Err(NoAdsMsg(owner)), 0)

\* ------------------------------------------------------------------ actions
Init ==
    /\ adStorage = << >>
    /\ uuidCount = 0
    /\ now = 0
    /\ calls = 0
    /\ last = NoCall

\* The host clock moves between messages.
Tick ==
    /\ now < MaxTime
    /\ now' = now + 1
    /\ UNCHANGED << adStorage, uuidCount, calls, last >>

CreateAd ==
    \E itemType \in CreateItemTypes,
       itemDescription \in CreateItemDescriptions :
        LET out == createAd(adStorage, uuidCount, now, itemType, itemDescription) IN
        /\ calls < MaxCalls
        /\ uuidCount < 2 * MaxAds
        /\ adStorage' = out.store
        /\ uuidCount' = IF out.result.ok THEN uuidCount + 2 ELSE uuidCount
        /\ UNCHANGED now
        /\ calls' = calls + 1
        /\ last' = [NoCall EXCEPT !.op = "createAd", !.itemType = itemType,
                       !.itemDescription = itemDescription,
                       !.result = out.result, !.writes = out.writes]

UpdateAd ==
    \E id \in IdArgs, owner \in OwnerArgs,
       itemType \in UpdateItemTypes, itemDescription \in UpdateItemDescriptions,
       status \in StatusArgs :
        LET out == updateAd(adStorage, now, id, owner, itemType, itemDescription, status) IN
        /\ calls < MaxCalls
        /\ adStorage' = out.store
        /\ calls' = calls + 1
        /\ last' = [NoCall EXCEPT !.op = "updateAd", !.id = id, !.who = owner,
                       !.itemType = itemType, !.itemDescription = itemDescription,
                       !.status = status,
                       !.statusBefore = IF containsKey(adStorage, id)
                                        THEN adStorage[id].status ELSE "",
                       !.result = out.result, !.writes = out.writes]
        /\ UNCHANGED << uuidCount, now >>

DeleteAd ==
    \E id \in IdArgs, owner \in OwnerArgs :
        LET out == deleteAd(adStorage, id, owner) IN
        /\ calls < MaxCalls
        /\ adStorage' = out.store
        /\ calls' = calls + 1
        /\ last' = [NoCall EXCEPT !.op = "deleteAd", !.id = id, !.who = owner,
                       !.result = out.result, !.writes = out.writes]
        /\ UNCHANGED << uuidCount, now >>

BidOnAd ==
    \E id \in IdArgs, bidder \in OwnerArgs, amount \in AmountArgs :
        LET out == bidOnAd(adStorage, id, bidder, amount) IN
        /\ calls < MaxCalls
        /\ adStorage' = out.store
        /\ calls' = calls + 1
        /\ last' = [NoCall EXCEPT !.op = "bidOnAd", !.id = id, !.who = bidder,
                       !.amount = amount,
                       !.result = out.result, !.writes = out.writes]
        /\ UNCHANGED << uuidCount, now >>

\* The $query calls: they leave the canister's state as it is.
GetAllAds ==
    LET out == getAllAds(adStorage) IN
    /\ last' = [NoCall EXCEPT !.op = "getAllAds",
                   !.result = out.result, !.writes = out.writes]
    /\ UNCHANGED << adStorage, uuidCount, now, calls >>

GetAdByID ==
    \E id \in IdArgs :
        LET out == getAdByID(adStorage, id) IN
        /\ last' = [NoCall EXCEPT !.op = "getAdByID", !.id = id,
                       !.result = out.result, !.writes = out.writes]
        /\ UNCHANGED << adStorage, uuidCount, now, calls >>

GetAdsByOwner ==
    \E owner \in OwnerArgs :
        LET out == getAdsByOwner(adStorage, owner) IN
        /\ last' = [NoCall EXCEPT !.op = "getAdsByOwner", !.who = owner,
                       !.result = out.result, !.writes = out.writes]
        /\ UNCHANGED << adStorage, uuidCount, now, calls >>

Next ==
    \/ CreateAd \/ UpdateAd \/ DeleteAd \/ BidOnAd
    \/ GetAllAds \/ GetAdByID \/ GetAdsByOwner
    \/ Tick

Spec == Init /\ [][Next]_vars

TypeOK ==
    /\ \A k \in DOMAIN adStorage : adStorage[k].id = k
    /\ uuidCount \in 0..(2 * MaxAds)
    /\ now \in 0..MaxTime
    /\ calls \in 0..MaxCalls
\* ------------------------------------------------------------------ claims
\* A step that is one call (Tick steps are not calls).
CallStep == calls' = calls + 1

\* The failure kinds of the specification, by the message the code returns.
InvalidParameters(r) ==
    /\ ~r.ok
    /\ r.msg \in {"Invalid parameters for updating ad",
                  "Invalid parameters for deleting ad",
                  "Invalid parameters for bidding on ad"}
InvalidPayload(r) ==
    /\ ~r.ok
    /\ r.msg \in {"Invalid payload for creating ad", "Invalid payload for updating ad"}
InvalidStatus(r) == ~r.ok /\ r.msg = InvalidStatusMsg
NotFound(r, id) == ~r.ok /\ r.msg \in {NotFoundMsg(id), GetNotFoundMsg(id)}
Unauthorized(r) ==
    /\ ~r.ok
    /\ r.msg \in {"Only the owner can edit the ad!", "Only the owner can delete the ad!"}
AdNotOpen(r) == ~r.ok /\ r.msg = "Ad is no longer open"
SelfBid(r) == ~r.ok /\ r.msg = "You can't bid on your own ad!"
DuplicateBid(r, bidder) == ~r.ok /\ r.msg = DuplicateBidMsg(bidder)

\* C1: in every reachable state no stored Ad has two bids of the same bidder.
C1_OneBidPerBidder ==
    \A id \in DOMAIN adStorage :
        \A i, j \in 1..Len(adStorage[id].bids) :
            adStorage[id].bids[i].bidder = adStorage[id].bids[j].bidder => i = j

\* A stored Ad holds two bids, and the latest call was an accepted bid on it.
C1_Witness ==
    /\ last.op = "bidOnAd" /\ last.result.ok
    /\ last.id \in DOMAIN adStorage
    /\ Len(adStorage[last.id].bids) = 2

\* C2: in every reachable state every stored Ad's status is one of OPEN,
\* CLOSED, BOUGHT (updateAd refuses every other non-empty status).
C2_StatusInEnum ==
    \A id \in DOMAIN adStorage : adStorage[id].status \in {"OPEN", "CLOSED", "BOUGHT"}

\* C3: whenever a step makes a stored Ad's bids longer, that Ad's status
\* before the step is OPEN.
C3_BidsGrowOnlyWhileOpen ==
    [][\A id \in DOMAIN adStorage \cap DOMAIN adStorage' :
          Len(adStorage'[id].bids) > Len(adStorage[id].bids)
              => adStorage[id].status = "OPEN"]_vars

\* The latest call appended a bid to an Ad that had been updated before.
C3_Witness ==
    /\ last.op = "bidOnAd" /\ last.result.ok
    /\ last.id \in DOMAIN adStorage
    /\ adStorage[last.id].updatedAt # None
    /\ Len(adStorage[last.id].bids) = 1

\* C4: in every reachable state no bid of a stored Ad has the Ad's owner as
\* its bidder.
C4_OwnerNeverBids ==
    \A id \in DOMAIN adStorage :
        \A i \in 1..Len(adStorage[id].bids) :
            adStorage[id].bids[i].bidder # adStorage[id].owner

\* An Ad with an accepted bid is stored and its owner's own bid was just refused.
C4_Witness ==
    /\ last.op = "bidOnAd" /\ ~last.result.ok
    /\ last.id \in DOMAIN adStorage
    /\ last.who = adStorage[last.id].owner
    /\ Len(adStorage[last.id].bids) = 1
\* The step is the call op(id, ...) on an Ad that is stored before the call.
CallOnStored(op) == CallStep /\ last'.op = op /\ last'.id \in DOMAIN adStorage

\* The Ad the step's call names is stored after the step exactly as before it.
AdUnchanged ==
    /\ last'.id \in DOMAIN adStorage'
    /\ adStorage'[last'.id] = adStorage[last'.id]

\* amount is a number, not NaN.
IsNumber(amount) == amount # "NaN"

\* C5 as stated: updateAd on a stored Ad with an owner argument other than the
\* stored owner always fails with Unauthorized and leaves the Ad unchanged.
C5_AsStated ==
    [][(CallOnStored("updateAd") /\ adStorage[last'.id].owner # last'.who)
          => (Unauthorized(last'.result) /\ AdUnchanged)]_vars

\* C5 amended: such a call always fails and leaves the stored Ad unchanged; the
\* failure is Unauthorized when owner, itemType and itemDescription are
\* non-empty and status is empty or one of OPEN, CLOSED, BOUGHT, it is
\* InvalidParameters when owner is empty, and InvalidPayload when owner is
\* non-empty and itemType or itemDescription is empty.
C5_NonOwnerUpdateFails ==
    [][(CallOnStored("updateAd") /\ adStorage[last'.id].owner # last'.who)
          => /\ ~last'.result.ok
             /\ AdUnchanged
             /\ (last'.who = "") => InvalidParameters(last'.result)
             /\ (last'.who # "" /\ (last'.itemType = "" \/ last'.itemDescription = ""))
                    => InvalidPayload(last'.result)
             /\ (/\ last'.who # ""
                 /\ last'.itemType # "" /\ last'.itemDescription # ""
                 /\ last'.status \in {"", "OPEN", "CLOSED", "BOUGHT"})
                    => Unauthorized(last'.result)]_vars

\* The latest call was an updateAd by a non-owner, refused as Unauthorized.
C5_Witness ==
    /\ last.op = "updateAd" /\ Unauthorized(last.result)
    /\ last.id \in DOMAIN adStorage
    /\ adStorage[last.id].owner # last.who

\* An Ad leaves the store only by deleteAd(id, owner) with its id and owner.
OnlyOwnerDeleteRemoves ==
    \A id \in DOMAIN adStorage :
        id \notin DOMAIN adStorage'
            => /\ CallStep /\ last'.op = "deleteAd" /\ last'.result.ok
               /\ last'.id = id /\ last'.who = adStorage[id].owner

\* C6 as stated: an Ad leaves the store only through deleteAd with its id and
\* its stored owner, and deleteAd with any other owner fails with Unauthorized
\* and leaves the Ad stored unchanged.
C6_AsStated ==
    [][/\ OnlyOwnerDeleteRemoves
       /\ (CallOnStored("deleteAd") /\ adStorage[last'.id].owner # last'.who)
              => (Unauthorized(last'.result) /\ AdUnchanged)]_vars

\* C6 amended: an Ad leaves the store only through deleteAd with its id and
\* its stored owner; deleteAd with any other owner fails and leaves the Ad
\* stored unchanged, with Unauthorized when the owner argument is non-empty
\* and with InvalidParameters when it is empty.
C6_OnlyOwnerDeletes ==
    [][/\ OnlyOwnerDeleteRemoves
       /\ (CallOnStored("deleteAd") /\ adStorage[last'.id].owner # last'.who)
              => /\ ~last'.result.ok
                 /\ AdUnchanged
                 /\ (last'.who # "") => Unauthorized(last'.result)
                 /\ (last'.who = "") => InvalidParameters(last'.result)]_vars

\* The owner has just deleted an Ad while another Ad stays stored.
C6_Witness ==
    /\ last.op = "deleteAd" /\ last.result.ok
    /\ last.id \notin DOMAIN adStorage
    /\ DOMAIN adStorage # {}

\* C7: a call that returns a failure leaves the whole store as it was, and
\* every call makes at most one store write (a store that changed was written
\* exactly once).
C7_NoPartialState ==
    [][CallStep
          => /\ ~last'.result.ok => adStorage' = adStorage
             /\ last'.writes <= 1
             /\ adStorage' # adStorage => last'.writes = 1]_vars

\* An updateAd that passed its argument checks failed on a non-empty store.
C7_Witness ==
    /\ last.op = "updateAd" /\ ~last.result.ok
    /\ last.writes = 0
    /\ ~InvalidParameters(last.result) /\ ~InvalidPayload(last.result)
    /\ Cardinality(DOMAIN adStorage) = 2

\* The step is a bidOnAd call that repeats the call before it (same id, same
\* bidder), and the call before it succeeded.
RepeatedBid ==
    /\ CallStep
    /\ last.op = "bidOnAd" /\ last.result.ok
    /\ last'.op = "bidOnAd" /\ last'.id = last.id /\ last'.who = last.who

\* A bidOnAd call that succeeds appends exactly its one Bid.
BidAppendsOne ==
    (CallOnStored("bidOnAd") /\ last'.result.ok)
        => /\ last'.id \in DOMAIN adStorage'
           /\ adStorage'[last'.id].bids =
                  Append(adStorage[last'.id].bids,
                         [bidder |-> last'.who, amount |-> last'.amount])

\* C8 as stated: of two bidOnAd calls in a row with the same bidder on the same
\* open Ad, the first (having succeeded) appended exactly one Bid and the
\* second fails with DuplicateBid and leaves the length of bids unchanged,
\* whatever the amounts.
C8_AsStated ==
    [][/\ BidAppendsOne
       /\ RepeatedBid
              => /\ DuplicateBid(last'.result, last'.who)
                 /\ Len(adStorage'[last'.id].bids) = Len(adStorage[last'.id].bids)]_vars

\* C8 amended: a first call by a non-empty bidder who is not the owner and has
\* no bid on the open Ad, with a number as amount, succeeds and appends exactly
\* one Bid; the second call fails and leaves bids unchanged whatever its
\* amount, with DuplicateBid when its amount is a number and with
\* InvalidParameters when its amount is NaN.
C8_SecondBidRefused ==
    [][/\ BidAppendsOne
       /\ (/\ CallOnStored("bidOnAd")
           /\ adStorage[last'.id].status = "OPEN"
           /\ last'.who # "" /\ last'.who # adStorage[last'.id].owner
           /\ \A i \in 1..Len(adStorage[last'.id].bids) :
                  adStorage[last'.id].bids[i].bidder # last'.who
           /\ IsNumber(last'.amount))
              => last'.result.ok
       /\ RepeatedBid
              => /\ ~last'.result.ok
                 /\ adStorage'[last'.id].bids = adStorage[last'.id].bids
                 /\ IsNumber(last'.amount) => DuplicateBid(last'.result, last'.who)
                 /\ ~IsNumber(last'.amount) => InvalidParameters(last'.result)]_vars

\* The latest call repeated a bid with another amount and was refused as a
\* duplicate; the bidder's one bid is the Ad's only bid.
C8_Witness ==
    /\ last.op = "bidOnAd" /\ DuplicateBid(last.result, last.who)
    /\ last.id \in DOMAIN adStorage
    /\ Len(adStorage[last.id].bids) = 1
    /\ adStorage[last.id].bids[1].bidder = last.who
    /\ adStorage[last.id].bids[1].amount # last.amount

\* C9 as stated: bidOnAd on a stored Ad whose status is CLOSED or BOUGHT
\* always fails with AdNotOpen.
C9_AsStated ==
    [][(CallOnStored("bidOnAd") /\ adStorage[last'.id].status \in {"CLOSED", "BOUGHT"})
          => AdNotOpen(last'.result)]_vars

\* C9 amended: bidOnAd on a stored Ad whose status is CLOSED or BOUGHT always
\* fails and leaves the store unchanged; the failure is AdNotOpen when bidder
\* is non-empty and amount is a number, and InvalidParameters otherwise.
C9_ClosedAdRefusesBids ==
    [][(CallOnStored("bidOnAd") /\ adStorage[last'.id].status \in {"CLOSED", "BOUGHT"})
          => /\ ~last'.result.ok
             /\ adStorage' = adStorage
             /\ (last'.who # "" /\ IsNumber(last'.amount)) => AdNotOpen(last'.result)
             /\ (last'.who = "" \/ ~IsNumber(last'.amount))
                    => InvalidParameters(last'.result)]_vars

\* A bid on a stored CLOSED or BOUGHT Ad has just been refused as AdNotOpen.
C9_Witness ==
    /\ last.op = "bidOnAd" /\ AdNotOpen(last.result)
    /\ last.id \in DOMAIN adStorage
    /\ adStorage[last.id].status \in {"CLOSED", "BOUGHT"}

\* C10 as stated: bidOnAd on a stored Ad with bidder equal to the Ad's owner
\* fails with SelfBid.
C10_AsStated ==
    [][(CallOnStored("bidOnAd") /\ last'.who = adStorage[last'.id].owner)
          => SelfBid(last'.result)]_vars

\* C10 amended: bidOnAd on a stored Ad with bidder equal to the Ad's owner
\* always fails; the failure is SelfBid when the Ad is OPEN and amount is a
\* number, AdNotOpen when amount is a number and the Ad is not OPEN, and
\* InvalidParameters when amount is NaN.
C10_OwnerBidRefused ==
    [][(CallOnStored("bidOnAd") /\ last'.who = adStorage[last'.id].owner)
          => /\ ~last'.result.ok
             /\ adStorage' = adStorage
             /\ (IsNumber(last'.amount) /\ adStorage[last'.id].status = "OPEN")
                    => SelfBid(last'.result)
             /\ (IsNumber(last'.amount) /\ adStorage[last'.id].status # "OPEN")
                    => AdNotOpen(last'.result)
             /\ ~IsNumber(last'.amount) => InvalidParameters(last'.result)]_vars

\* The owner's bid on the owner's own OPEN Ad, still without bids, has just
\* been refused as SelfBid.
C10_Witness ==
    /\ last.op = "bidOnAd" /\ SelfBid(last.result)
    /\ last.id \in DOMAIN adStorage
    /\ last.who = adStorage[last.id].owner
    /\ adStorage[last.id].status = "OPEN"
    /\ adStorage[last.id].bids = << >>
\* The ids createAd has handed out so far, and those of them no longer stored:
\* createAd stores every id it hands out, so these are the deleted Ads' ids.
HandedOutIds == { uuidv4(2 * k - 1) : k \in 1..(uuidCount \div 2) }
DeletedIds == HandedOutIds \ DOMAIN adStorage

\* The step is a query (queries change nothing but the record of the latest call).
QueryStep(op) == last' # last /\ last'.op = op

\* A successful deleteAd removes the Ad it names, and a deleted id is never
\* stored again.
DeletedStaysDeleted ==
    /\ (CallStep /\ last'.op = "deleteAd" /\ last'.result.ok)
           => (last'.id \in DOMAIN adStorage /\ last'.id \notin DOMAIN adStorage')
    /\ \A id \in DeletedIds : id \notin DOMAIN adStorage'
    /\ (QueryStep("getAdByID") /\ last'.id \in DeletedIds)
           => NotFound(last'.result, last'.id)

\* C11 as stated: after a successful deleteAd the Ad is gone for good:
\* getAdByID(id) fails with NotFound from then on, and every later updateAd,
\* bidOnAd and deleteAd on that id fails with NotFound.
C11_AsStated ==
    [][/\ DeletedStaysDeleted
       /\ (CallStep /\ last'.op \in {"updateAd", "bidOnAd", "deleteAd"}
             /\ last'.id \in DeletedIds)
              => NotFound(last'.result, last'.id)]_vars

\* C11 amended: after a successful deleteAd the Ad is gone for good:
\* getAdByID(id) fails with NotFound from then on, and every later updateAd,
\* bidOnAd and deleteAd on that id fails and writes nothing, with NotFound
\* when the call's other arguments pass its checks (updateAd: owner, itemType,
\* itemDescription non-empty and status empty or one of OPEN, CLOSED, BOUGHT;
\* deleteAd: owner non-empty; bidOnAd: bidder non-empty and amount a number)
\* and with InvalidParameters when owner or bidder is empty or amount is NaN.
C11_DeletedIsGone ==
    [][/\ DeletedStaysDeleted
       /\ (CallStep /\ last'.op \in {"updateAd", "bidOnAd", "deleteAd"}
             /\ last'.id \in DeletedIds)
              => /\ ~last'.result.ok
                 /\ adStorage' = adStorage
                 /\ (last'.who = "" \/ ~IsNumber(last'.amount))
                        => InvalidParameters(last'.result)
                 /\ (/\ last'.who # ""
                     /\ IsNumber(last'.amount)
                     /\ last'.op = "updateAd"
                            => /\ last'.itemType # "" /\ last'.itemDescription # ""
                               /\ last'.status \in {"", "OPEN", "CLOSED", "BOUGHT"})
                        => NotFound(last'.result, last'.id)]_vars

\* getAdByID on the id of a deleted Ad has just failed with NotFound, after
\* createAd made another Ad.
C11_Witness ==
    /\ last.op = "getAdByID" /\ NotFound(last.result, last.id)
    /\ last.id \in DeletedIds
    /\ DOMAIN adStorage # {}
\* C12: getAdByID(ad.id) called right after a successful createAd returned ad
\* succeeds with that same Ad, whose status is OPEN, whose bids are empty,
\* whose updatedAt is absent and whose itemType and itemDescription are the
\* payload's.
C12_CreatedAdIsReadBack ==
    [][(/\ last.op = "createAd" /\ last.result.ok
        /\ QueryStep("getAdByID")
        /\ last'.id = last.result.value.id)
          => /\ last'.result.ok
             /\ last'.result.value = last.result.value
             /\ last'.result.value.status = "OPEN"
             /\ last'.result.value.bids = << >>
             /\ last'.result.value.updatedAt = << >>
             /\ last'.result.value.itemType = last.itemType
             /\ last'.result.value.itemDescription = last.itemDescription]_vars

\* getAdByID has just returned the stored Ad, the only call before it being
\* the createAd that made the Ad.
C12_Witness ==
    /\ last.op = "getAdByID" /\ last.result.ok
    /\ calls = 1
    /\ last.id \in DOMAIN adStorage
    /\ last.result.value = adStorage[last.id]

\* C13: createAd with an empty itemType or an empty itemDescription fails with
\* InvalidPayload and leaves the store as it was.
C13_EmptyPayloadRefused ==
    [][(CallStep /\ last'.op = "createAd"
          /\ (last'.itemType = "" \/ last'.itemDescription = ""))
          => /\ InvalidPayload(last'.result)
             /\ last'.writes = 0
             /\ adStorage' = adStorage]_vars

\* createAd with an itemType but an empty itemDescription has just been
\* refused, an Ad being stored already.
C13_Witness ==
    /\ last.op = "createAd" /\ InvalidPayload(last.result)
    /\ last.itemType # "" /\ last.itemDescription = ""
    /\ DOMAIN adStorage # {}

\* The elements of a sequence.
Range(seq) == { seq[i] : i \in 1..Len(seq) }

\* The stored Ads whose owner is owner.
AdsOf(owner) == { adStorage[id] : id \in { k \in DOMAIN adStorage : adStorage[k].owner = owner } }

\* C14: getAllAds succeeds with every stored Ad (the empty sequence on an empty
\* store); getAdsByOwner(owner) fails exactly when no stored Ad has that owner
\* and otherwise succeeds with exactly the stored Ads of that owner. (A query
\* leaves the store as it is, so the store a query's result is compared with
\* is the store the query read.)
C14_Queries ==
    /\ last.op = "getAllAds"
           => /\ last.result.ok
              /\ Range(last.result.value) = { adStorage[id] : id \in DOMAIN adStorage }
              /\ Len(last.result.value) = Cardinality(DOMAIN adStorage)
    /\ last.op = "getAdsByOwner"
           => /\ ~last.result.ok <=> AdsOf(last.who) = {}
              /\ last.result.ok
                     => /\ Range(last.result.value) = AdsOf(last.who)
                        /\ Len(last.result.value) = Cardinality(AdsOf(last.who))

\* getAdsByOwner has just failed for an owner without Ads while an Ad of
\* another owner is stored.
C14_Witness ==
    /\ last.op = "getAdsByOwner" /\ ~last.result.ok
    /\ last.who # ""
    /\ DOMAIN adStorage # {}
\* The ids stored before and after the step.
Kept == DOMAIN adStorage \cap DOMAIN adStorage'

\* C15: every stored Ad is stored under its own id, and as long as an Ad stays
\* stored every step keeps its id, its owner and its createdAt.
C15_IdOwnerCreatedAtImmutable ==
    [][/\ \A id \in DOMAIN adStorage' : adStorage'[id].id = id
       /\ \A id \in Kept :
              /\ adStorage'[id].id = adStorage[id].id
              /\ adStorage'[id].owner = adStorage[id].owner
              /\ adStorage'[id].createdAt = adStorage[id].createdAt]_vars

\* An Ad created at clock 0 was updated at clock 1 and then received a bid.
C15_Witness ==
    \E id \in DOMAIN adStorage :
        /\ adStorage[id].createdAt = 0
        /\ adStorage[id].updatedAt = << 1 >>
        /\ Len(adStorage[id].bids) = 1

\* C16: as long as an Ad stays stored, its bids before a step are a prefix of
\* its bids after the step (no step drops, reorders or alters a bid).
C16_BidsAppendOnly ==
    [][\A id \in Kept :
          /\ Len(adStorage[id].bids) <= Len(adStorage'[id].bids)
          /\ SubSeq(adStorage'[id].bids, 1, Len(adStorage[id].bids)) = adStorage[id].bids]_vars

\* The owner has just closed an Ad that holds a bid, and the bid is still there.
C16_Witness ==
    /\ last.op = "updateAd" /\ last.result.ok
    /\ last.status = "CLOSED"
    /\ last.id \in DOMAIN adStorage
    /\ Len(adStorage[last.id].bids) = 1

\* C17: a new Ad has no updatedAt; a stored Ad's updatedAt changes only in a
\* successful updateAd on it; every successful updateAd sets it to the clock
\* of the call; and once set it is never absent again.
C17_UpdatedAt ==
    [][/\ \A id \in DOMAIN adStorage' \ DOMAIN adStorage : adStorage'[id].updatedAt = << >>
       /\ \A id \in Kept :
              /\ adStorage[id].updatedAt # << >> => adStorage'[id].updatedAt # << >>
              /\ adStorage'[id].updatedAt # adStorage[id].updatedAt
                     => /\ CallStep /\ last'.op = "updateAd"
                        /\ last'.result.ok /\ last'.id = id
       /\ (CallOnStored("updateAd") /\ last'.result.ok)
              => /\ last'.id \in DOMAIN adStorage'
                 /\ adStorage'[last'.id].updatedAt = << now >>]_vars

\* An Ad updated at clock 0 has just received a bid at clock 1 and still has
\* its updatedAt.
C17_Witness ==
    /\ last.op = "bidOnAd" /\ last.result.ok
    /\ now = 1
    /\ last.id \in DOMAIN adStorage
    /\ adStorage[last.id].updatedAt = << 0 >>
\* C18: updateAd on a stored Ad by its owner, with non-empty itemType and
\* itemDescription and a status t among OPEN, CLOSED, BOUGHT, succeeds and
\* makes t the stored status whatever the status was; with an empty status it
\* succeeds and keeps the status; and an Ad that is OPEN after its updates
\* accepts the bid (a number) of a non-empty bidder who is not the owner and
\* has no bid on it.
C18_AnyStatusTransition ==
    [][/\ (/\ CallOnStored("updateAd")
           /\ last'.who = adStorage[last'.id].owner
           /\ last'.itemType # "" /\ last'.itemDescription # ""
           /\ last'.status \in {"", "OPEN", "CLOSED", "BOUGHT"})
              => /\ last'.result.ok
                 /\ last'.id \in DOMAIN adStorage'
                 /\ adStorage'[last'.id].status =
                        IF last'.status = "" THEN adStorage[last'.id].status
                                             ELSE last'.status
       /\ (/\ CallOnStored("bidOnAd")
           /\ adStorage[last'.id].status = "OPEN"
           /\ adStorage[last'.id].updatedAt # << >>
           /\ last'.who # "" /\ last'.who # adStorage[last'.id].owner
           /\ IsNumber(last'.amount)
           /\ \A i \in 1..Len(adStorage[last'.id].bids) :
                  adStorage[last'.id].bids[i].bidder # last'.who)
              => last'.result.ok]_vars

\* The owner has just reopened a CLOSED Ad.
C18_Witness ==
    /\ last.op = "updateAd" /\ last.result.ok
    /\ last.statusBefore = "CLOSED" /\ last.status = "OPEN"
    /\ last.id \in DOMAIN adStorage
    /\ adStorage[last.id].status = "OPEN"
\* C19: a successful bidOnAd(id, bidder, amount) changes the store in one
\* place only: the bids of the Ad stored under id get the one entry
\* {bidder, amount} at their end. That Ad's other fields (status, updatedAt,
\* itemType, itemDescription, owner, createdAt, id) and every other stored Ad
\* are as before.
C19_BidChangesOnlyBids ==
    [][(CallOnStored("bidOnAd") /\ last'.result.ok)
          => /\ adStorage' =
                    [adStorage EXCEPT ![last'.id].bids =
                         Append(@, [bidder |-> last'.who, amount |-> last'.amount])]
             /\ adStorage'[last'.id].status = adStorage[last'.id].status
             /\ adStorage'[last'.id].updatedAt = adStorage[last'.id].updatedAt]_vars

\* A bid has just been accepted on one of two stored Ads.
C19_Witness ==
    /\ last.op = "bidOnAd" /\ last.result.ok
    /\ Cardinality(DOMAIN adStorage) = 2
    /\ \E id \in DOMAIN adStorage : adStorage[id].bids = << >>

\* C20: no two stored Ads have the same owner, and a successful getAdsByOwner
\* returns exactly one Ad (the identifier generator never repeating a value).
C20_OneAdPerOwner ==
    /\ \A i, j \in DOMAIN adStorage : adStorage[i].owner = adStorage[j].owner => i = j
    /\ (last.op = "getAdsByOwner" /\ last.result.ok) => Len(last.result.value) = 1

\* getAdsByOwner has just succeeded while two Ads are stored.
C20_Witness ==
    /\ last.op = "getAdsByOwner" /\ last.result.ok
    /\ Cardinality(DOMAIN adStorage) = 2
====
